---- MODULE Spec2Model ----
(***************************************************************************)
(* Model of the QorSense dashboard (frontend-next/app/page.tsx) and of the  *)
(* sidebar controls that drive it (frontend-next/components/Sidebar.tsx).   *)
(*                                                                          *)
(* The Dashboard component owns the series `data`, the last published       *)
(* `analysis`, the `loading` flag, the `settings` pushed up by the sidebar  *)
(* and the `isLive` switch.  The live effect registers a 1000 ms interval   *)
(* whose callback closes over the `data` and the handleAnalyze of the       *)
(* render in which the effect ran; it is re-run (cleanup, then a new        *)
(* interval) whenever isLive or data change.  HTTP calls (analyze,          *)
(* generate-synthetic) are asynchronous: a request is issued in one step    *)
(* and its response or failure is handled in a later step.                  *)
(*                                                                          *)
(* Numbers are stored in half units (stored value = 2 * real value) so that *)
(* 10 + Math.random() - 0.5 stays in the integers.                          *)
(***************************************************************************)
EXTENDS Integers, Sequences, FiniteSets, Bags, TLC

VARIABLES
    data,          \* useState<number[]>([])                        page.tsx:13
    analysis,      \* useState<AnalysisResult | null>(null)         page.tsx:14
    loading,       \* useState(false)                               page.tsx:15
    settings,      \* useState<any>({}) filled by the sidebar       page.tsx:17
    isLive,        \* useState(false)                               page.tsx:18
    timerOn,       \* an interval is registered                     page.tsx:24
    timers,        \* how many intervals are registered            page.tsx:24
    timerData,     \* `data` captured by the interval's callback    page.tsx:24
    timerSettings, \* `settings` captured through handleAnalyze     page.tsx:40
    analyzeReqs,   \* analyze requests awaiting their response      page.tsx:76
    genPending,    \* generate requests awaiting their response     page.tsx:55
    ticks,         \* number of interval callbacks run so far
    owners,        \* for the samples of `data`, in runs, the sensor id
                   \* selected when they entered the series
    genType,       \* useState("Normal"), the scenario select    Sidebar.tsx:37
    report,        \* payload of the last report request           page.tsx:86
    call,          \* the last application of a function checked on
                   \* its own: its name, its input and its output
    upload,        \* state of the DataUploadModal           part_002:23-26
    sensorForm     \* state of the AddSensorModal         index.ts:195-201

vars == <<data, analysis, loading, settings, isLive, timerOn, timers, timerData,
          timerSettings, analyzeReqs, genPending, ticks, owners, genType,
          report, call, upload, sensorForm>>

\* What the dashboard's own handlers never touch.
aside == <<genType, report, call, upload, sensorForm>>
dashboardState == <<data, analysis, loading, settings, isLive, timerOn, timers,
                    timerData, timerSettings, analyzeReqs, genPending, ticks>>

----------------------------------------------------------------------------
(* Bounds of the model: interval callbacks run in all, analyze requests    *)
(* in flight when Run Analysis is clicked, generate requests in flight.     *)

MaxTicks == 2
MaxInflight == 1
MaxGen == 1

\* Longest series handed to a function checked on its own.
MaxSeriesLen == 60

\* Upload requests started in the upload dialog in all.
MaxUploads == 2

\* Create requests started in the add-sensor dialog in all.
MaxCreates == 2

\* Most tokens in a CSV file whose every content is tried.
MaxTokens == 3

\* Every finite number of the model lies strictly between -FiniteLimit and
\* FiniteLimit; the two infinities of a double are stored as these limits.
FiniteLimit == 1000000

(* Program constants *)

Capacity == 100
TickMinPoints == 50
AnalyzeMinPoints == 50
ButtonMinPoints == 50
ConfigMinPoints == 50
GenLength == 200

NoResult == [kind |-> "null"]

NoReport == [kind |-> "none"]

NoCall == [fn |-> "none"]

SensorIds == {"SENSOR-001", "SENSOR-002"}

\* Math.random() outcomes, in half units: 0 (0.0) and 1 (0.5).
RandomOutcomes == {0, 1}

GenTypes == {"Normal", "Drifting", "Noisy", "Oscillation"}

----------------------------------------------------------------------------
(* Pure helpers *)

\* Array.prototype.slice(-n): the last n elements, all of them when shorter.
SliceLast(s, n) ==
    IF Len(s) <= n THEN s ELSE SubSeq(s, Len(s) - n + 1, Len(s))

\* newVal = 10 + Math.random() - 0.5, in half units.
NewVal(rnd) == 2 * 10 + rnd - 1

\* [...data, newVal].slice(-100)
NewData(d, rnd) == SliceLast(Append(d, NewVal(rnd)), Capacity)

\* An off-by-one gate.
AutoAnalyzeStrict(newData) == Len(newData) > TickMinPoints

\* if (newData.length >= 50) handleAnalyze(newData)
AutoAnalyze(newData) == Len(newData) >= TickMinPoints

\* if (currentData.length < 50) return
AnalyzeSkips(currentData) == Len(currentData) < AnalyzeMinPoints

\* disabled={data.length < 50 || isLive}
RunDisabled == Len(data) < ButtonMinPoints \/ isLive

\* A payload that carries a tail of the series only.
PayloadTail(currentData, s, origin) ==
    [sensor_id |-> IF s.sensorId = "" THEN "SENSOR-001" ELSE s.sensorId,
     values    |-> SliceLast(currentData, AnalyzeMinPoints - 1),
     config    |-> s.config,
     origin    |-> origin]

\* The payload built by handleAnalyze from the settings of its render.
Payload(currentData, s, origin) ==
    [sensor_id |-> IF s.sensorId = "" THEN "SENSOR-001" ELSE s.sensorId,
     values    |-> currentData,
     config    |-> s.config,
     origin    |-> origin]

\* The sidebar's config state; setConfig is never called.  Thresholds are
\* stored in hundredths (stored = 100 * real), min_data_points as it is.
DefaultConfig ==
    [slope_critical      |-> 10,
     slope_warning       |-> 5,
     bias_critical       |-> 200,
     bias_warning        |-> 100,
     noise_critical      |-> 150,
     hysteresis_critical |-> 50,
     dfa_critical        |-> 80,
     min_data_points     |-> ConfigMinPoints]

\* Settings that carry the data-point minimum only.
SidebarSettingsPartial(id) ==
    [sensorId |-> id, config |-> [min_data_points |-> ConfigMinPoints]]

\* Sidebar state pushed through onSettingsChange on mount and whenever
\* sensorId changes.
SidebarSettings(id) == [sensorId |-> id, config |-> DefaultConfig]

\* The scenario the live tick simulates: "hardcoded to Normal".
TickScenario == "Normal"

\* The response of POST /analyze for a request.
Result(req) ==
    [kind |-> "result", sensor_id |-> req.sensor_id, values |-> req.values]

\* The sensor id selected when the samples of `data` entered it, kept as
\* runs: n consecutive samples that entered while id was selected.

\* A whole series d that enters while id is selected.
OwnedBy(d, id) == IF Len(d) = 0 THEN <<>> ELSE <<[id |-> id, n |-> Len(d)]>>

\* One more sample enters while id is selected.
Collected(runs, id) ==
    IF runs # <<>> /\ runs[Len(runs)].id = id
    THEN [runs EXCEPT ![Len(runs)].n = @ + 1]
    ELSE Append(runs, [id |-> id, n |-> 1])

RECURSIVE RunLen(_)
RunLen(runs) ==
    IF runs = <<>> THEN 0 ELSE Head(runs).n + RunLen(Tail(runs))

RECURSIVE DropFront(_, _)
DropFront(runs, k) ==
    IF k = 0 THEN runs
    ELSE IF Head(runs).n <= k
    THEN DropFront(Tail(runs), k - Head(runs).n)
    ELSE <<[Head(runs) EXCEPT !.n = @ - k]>> \o Tail(runs)

\* The runs of the last n samples, as slice(-n) keeps them.
KeepLast(runs, n) ==
    IF RunLen(runs) <= n THEN runs ELSE DropFront(runs, RunLen(runs) - n)

\* The response of POST /generate-synthetic: `length` samples.
GenSeries == [i \in 1..GenLength |-> 1000 + i]

----------------------------------------------------------------------------
(* Charts: the reference window drawn over the trend.                       *)

Max(a, b) == IF a >= b THEN a ELSE b
Min(a, b) == IF a <= b THEN a ELSE b

\* refEnd = Math.max(1, Math.floor(data.length * 0.1)).
RefEnd(n) == Max(1, n \div 10)

\* Math.round(0.1 * n): the nearest integer, halves upwards.
RoundTenth(n) == (n + 5) \div 10

----------------------------------------------------------------------------
(* POST /analyze.  The engine behind the endpoint validates the series      *)
(* (section 4.1 of the specification); api.analyze hands its answer on.     *)

ValidationError == [kind |-> "ValidationError"]

\* Fails when fewer than min_data_points values remain, else the result.
EngineAnalyze(payload) ==
    IF Len(payload.values) < payload.config.min_data_points
    THEN ValidationError
    ELSE Result(payload)

\* A wrapper that catches like healthCheck does and returns no value.
ApiAnalyzeSwallows(payload) == [kind |-> "resolved", value |-> NoResult]

\* api.analyze: axios.post rejects on an error response and nothing
\* catches it here; otherwise res.data is returned.
ApiAnalyze(payload) ==
    LET answer == EngineAnalyze(payload)
    IN  IF answer.kind = "result"
        THEN [kind |-> "resolved", value |-> answer]
        ELSE [kind |-> "rejected", error |-> answer]

----------------------------------------------------------------------------
(* Scoring (section 4.3 of the specification).  A metric is given by its    *)
(* deviation from nominal, in hundredths like the thresholds: |slope|,      *)
(* |bias|, noise_std, hysteresis and |hurst - 0.5|.                         *)

MetricNames == {"SLOPE", "BIAS", "NOISE", "HYSTERESIS", "DFA"}

\* The warning and critical threshold of each metric in a config; a metric
\* the config gives no warning threshold has no warning band.
Thresholds(c) ==
    [SLOPE      |-> [warn |-> c.slope_warning, crit |-> c.slope_critical],
     BIAS       |-> [warn |-> c.bias_warning, crit |-> c.bias_critical],
     NOISE      |-> [warn |-> c.noise_critical, crit |-> c.noise_critical],
     HYSTERESIS |-> [warn |-> c.hysteresis_critical,
                     crit |-> c.hysteresis_critical],
     DFA        |-> [warn |-> c.dfa_critical, crit |-> c.dfa_critical]]

\* The height of the plateau is not fixed by the specification.
PenaltyCaps == {10, 30, 60}

\* 0 below warning, linear ramp from warning to critical, plateau from
\* critical on.
Penalty(dev, th, cap) ==
    IF dev < th.warn THEN 0
    ELSE IF dev >= th.crit THEN cap
    ELSE (cap * (dev - th.warn)) \div (th.crit - th.warn)

PenaltySum(m, c, cap) ==
    Penalty(m.SLOPE, Thresholds(c).SLOPE, cap)
    + Penalty(m.BIAS, Thresholds(c).BIAS, cap)
    + Penalty(m.NOISE, Thresholds(c).NOISE, cap)
    + Penalty(m.HYSTERESIS, Thresholds(c).HYSTERESIS, cap)
    + Penalty(m.DFA, Thresholds(c).DFA, cap)

\* A score that is not clamped.
ClampNot(x, lo, hi) == x

Clamp(x, lo, hi) == Max(lo, Min(hi, x))

\* health_score = clamp(100 - sum of penalties, 0, 100)
HealthScore(m, c, cap) == Clamp(100 - PenaltySum(m, c, cap), 0, 100)

\* <METRIC>_CRITICAL at or beyond critical, <METRIC>_WARNING between
\* warning and critical.
Flags(m, c) ==
    {[metric |-> k, level |-> "CRITICAL"] :
        k \in {j \in MetricNames : m[j] >= Thresholds(c)[j].crit}}
    \cup
    {[metric |-> k, level |-> "WARNING"] :
        k \in {j \in MetricNames : /\ m[j] >= Thresholds(c)[j].warn
                                   /\ m[j] < Thresholds(c)[j].crit}}

\* A status read off the health score alone.
StatusByScore(flags, health) ==
    IF health < 50 THEN "Red"
    ELSE IF health < 80 THEN "Yellow"
    ELSE "Green"

\* Red on a critical flag or a score below 50, Yellow on a warning flag or
\* a score below 80, else Green.
Status(flags, health) ==
    IF (\E f \in flags : f.level = "CRITICAL") \/ health < 50 THEN "Red"
    ELSE IF (\E f \in flags : f.level = "WARNING") \/ health < 80
    THEN "Yellow"
    ELSE "Green"

\* The scoring part of an AnalysisResult.
Scored(m, c, cap) ==
    [health_score |-> HealthScore(m, c, cap),
     flags        |-> Flags(m, c),
     status       |-> Status(Flags(m, c), HealthScore(m, c, cap))]

\* Deviations around the thresholds of a metric: none, at warning, inside
\* the ramp, at critical, beyond critical.
DevGrid(th) ==
    {0, th.warn, (th.warn + th.crit) \div 2, th.crit, th.crit + 1}

MetricSets(c) ==
    [SLOPE      : DevGrid(Thresholds(c).SLOPE),
     BIAS       : DevGrid(Thresholds(c).BIAS),
     NOISE      : DevGrid(Thresholds(c).NOISE),
     HYSTERESIS : DevGrid(Thresholds(c).HYSTERESIS),
     DFA        : DevGrid(Thresholds(c).DFA)]

\* By how much one deviation is grown.
Growths == {1, 100}

----------------------------------------------------------------------------
(* CSV text, as the tokens text.split(/[\n,]+/) yields *)

Num(v) == [kind |-> "num", v |-> v]
Junk == [kind |-> "nan", v |-> 0]

\* parseFloat("Infinity") and parseFloat("-Infinity") are the infinities.
Infinity == FiniteLimit
Inf == [kind |-> "inf", v |-> Infinity]
NegInf == [kind |-> "inf", v |-> -Infinity]

\* Number.isFinite
IsFinite(x) == -FiniteLimit < x /\ x < FiniteLimit

NumFile(n) == [i \in 1..n |-> Num(i)]

\* Every file of at most MaxTokens tokens.
Tokens == {Num(1), Num(2), Num(3), Junk, Inf, NegInf}
TokenFiles == UNION {[1..n -> Tokens] : n \in 1..MaxTokens}

CsvFiles ==
    { NumFile(49) \o <<Junk>>,
      <<Junk, Junk>> }

\* .map(v => parseFloat(v.trim())).filter(v => !isNaN(v))
ParseCsv(tokens) ==
    LET kept == SelectSeq(tokens, LAMBDA t : t.kind # "nan")
    IN  [i \in 1..Len(kept) |-> kept[i].v]

----------------------------------------------------------------------------
(* The live effect: cleanup of the previous run, then the body.  It runs    *)
(* after every render in which isLive or data changed; d, live and s are    *)
(* the values of that render.                                               *)

\* A missing cleanup: an interval, once registered, is never cleared.
EffectTimerOnLeak(live) == timerOn \/ live

\* if (isLive) { interval = setInterval(...) }, after clearInterval(interval)
EffectTimerOn(live) == live

\* A dependency list without `data`: the callback keeps its first capture.
EffectTimerDataStale(d) == timerData

\* The callback closes over the `data` of the render of this effect run.
EffectTimerData(d) == d

\* No cleanup: the interval of the previous run stays registered.
EffectTimersLeak(live) == timers + (IF live THEN 1 ELSE 0)

\* return () => clearInterval(interval) clears the interval the previous
\* run registered, if it registered one; then the body registers one
\* when live.
EffectTimers(live) ==
    (timers - (IF timerOn THEN 1 ELSE 0)) + (IF live THEN 1 ELSE 0)

LiveEffect(d, live, s) ==
    /\ timerOn' = EffectTimerOn(live)
    /\ timers' = EffectTimers(live)
    /\ timerData' = EffectTimerData(d)
    /\ timerSettings' = s

\* A missed re-registration: the cleanup runs, no new interval is created.
TickEffectStall(newData) ==
    /\ timerOn' = FALSE
    /\ timers' = EffectTimers(FALSE)
    /\ timerData' = newData
    /\ timerSettings' = settings

\* The effect as re-run by the render that follows the callback's
\* setData(newData): isLive and settings are those of the current state.
TickEffect(newData) == LiveEffect(newData, isLive, settings)

----------------------------------------------------------------------------
(* Requests in flight: api.analyze(payload) has been called and its promise  *)
(* is neither resolved nor rejected.                                        *)

Send(req) == analyzeReqs (+) SetToBag({req})

Settle(req) == analyzeReqs (-) SetToBag({req})

----------------------------------------------------------------------------
(* The two dialogs, as they are mounted.                                    *)

NoFile == <<>>
NoError == ""

\* useState(false), useState(false), useState(null), useState(null); with
\* the upload requests in flight and counts of the requests started, of
\* the successful and failed responses and of the onUploadSuccess calls.
UploadClosed ==
    [open |-> FALSE, uploading |-> FALSE, file |-> NoFile, error |-> NoError,
     requests |-> <<>>, started |-> 0, ok |-> 0, failed |-> 0, notified |-> 0]

\* formData as first rendered, and as reset after a success.
EmptyForm == [name |-> "", location |-> "", source_type |-> "CSV"]

\* useState(false), useState(false), useState(EmptyForm); with the create
\* requests in flight and counts of the requests started, of the
\* successful and failed responses and of the onSensorCreated calls.
FormClosed ==
    [open |-> FALSE, loading |-> FALSE, form |-> EmptyForm,
     requests |-> <<>>, started |-> 0, ok |-> 0, failed |-> 0, notified |-> 0]

----------------------------------------------------------------------------
Init ==
    /\ data = <<>>
    /\ analysis = NoResult
    /\ loading = FALSE
    /\ settings = SidebarSettings("SENSOR-001")
    /\ isLive = FALSE
    /\ timerOn = FALSE
    /\ timers = 0
    /\ timerData = <<>>
    /\ timerSettings = SidebarSettings("SENSOR-001")
    /\ analyzeReqs = EmptyBag
    /\ genPending = 0
    /\ ticks = 0
    /\ owners = <<>>
    /\ genType = "Normal"
    /\ report = NoReport
    /\ call = NoCall
    /\ upload = UploadClosed
    /\ sensorForm = FormClosed

\* A Start that initialises the buffer instead of reusing it.
ToggleLiveReset ==
    /\ isLive' = ~isLive
    /\ data' = IF isLive THEN data ELSE <<>>
    /\ LiveEffect(data', ~isLive, settings)
    /\ UNCHANGED <<analysis, loading, settings, analyzeReqs, genPending,
                   ticks>>
    /\ owners' = IF isLive THEN owners ELSE <<>>
    /\ UNCHANGED aside

\* onToggleLive={() => setIsLive(!isLive)}
ToggleLive ==
    /\ isLive' = ~isLive
    /\ LiveEffect(data, ~isLive, settings)
    /\ UNCHANGED <<data, analysis, loading, settings, analyzeReqs, genPending,
                   ticks>>
    /\ UNCHANGED <<owners, genType, report, call, upload, sensorForm>>

\* The interval callback.
Tick(rnd) ==
    /\ timerOn
    /\ ticks < MaxTicks
    /\ LET newData == NewData(timerData, rnd)
       IN  /\ data' = newData
           /\ IF AutoAnalyze(newData) /\ ~AnalyzeSkips(newData)
              THEN analyzeReqs' =
                       Send(Payload(newData, timerSettings, "tick"))
              ELSE analyzeReqs' = analyzeReqs
           /\ TickEffect(newData)
    /\ ticks' = ticks + 1
    /\ UNCHANGED <<analysis, loading, settings, isLive, genPending>>
    /\ owners' = KeepLast(Collected(owners, settings.sensorId), Capacity)
    /\ UNCHANGED aside

\* The Run Analysis button: handleAnalyze() on the current data.
RunAnalysis ==
    /\ ~RunDisabled
    /\ BagCardinality(analyzeReqs) < MaxInflight
    /\ analyzeReqs' =
           IF AnalyzeSkips(data) THEN analyzeReqs
           ELSE Send(Payload(data, settings, "button"))
    /\ UNCHANGED <<data, analysis, loading, settings, isLive, timerOn, timers,
                   timerData, timerSettings, genPending, ticks>>
    /\ UNCHANGED <<owners, genType, report, call, upload, sensorForm>>

\* await api.analyze(payload) resolves: setAnalysis(result).
AnalyzeResolve(req) ==
    /\ BagIn(req, analyzeReqs)
    /\ analysis' = Result(req)
    /\ analyzeReqs' = Settle(req)
    /\ UNCHANGED <<data, loading, settings, isLive, timerOn, timers, timerData,
                   timerSettings, genPending, ticks>>
    /\ UNCHANGED <<owners, genType, report, call, upload, sensorForm>>

\* A catch block that also discards the published result.
AnalyzeRejectClears(req) ==
    /\ BagIn(req, analyzeReqs)
    /\ analyzeReqs' = Settle(req)
    /\ analysis' = NoResult
    /\ UNCHANGED <<data, loading, settings, isLive, timerOn, timers, timerData,
                   timerSettings, genPending, ticks>>
    /\ UNCHANGED <<owners, genType, report, call, upload, sensorForm>>

\* await api.analyze(payload) rejects: console.error(e).
AnalyzeReject(req) ==
    /\ BagIn(req, analyzeReqs)
    /\ analyzeReqs' = Settle(req)
    /\ UNCHANGED <<data, analysis, loading, settings, isLive, timerOn, timers,
                   timerData, timerSettings, genPending, ticks>>
    /\ UNCHANGED <<owners, genType, report, call, upload, sensorForm>>

\* Generate Data button (disabled={isLive}), onGenerate(genType, 200):
\* handleGenerate up to its await.
GenerateClick(type) ==
    /\ ~isLive
    /\ genPending < MaxGen
    /\ loading' = TRUE
    /\ genPending' = genPending + 1
    /\ UNCHANGED <<data, analysis, settings, isLive, timerOn, timers, timerData,
                   timerSettings, analyzeReqs, ticks>>
    /\ UNCHANGED <<owners, genType, report, call, upload, sensorForm>>

\* A success branch without setAnalysis(null).
GenerateResolveKeeps ==
    /\ genPending > 0
    /\ genPending' = genPending - 1
    /\ data' = GenSeries
    /\ loading' = FALSE
    /\ LiveEffect(GenSeries, isLive, settings)
    /\ UNCHANGED <<analysis, settings, isLive, analyzeReqs, ticks>>
    /\ owners' = OwnedBy(GenSeries, settings.sensorId)
    /\ UNCHANGED aside

\* await api.generateSynthetic(...) resolves: setData, setAnalysis(null),
\* and finally setLoading(false).
GenerateResolve ==
    /\ genPending > 0
    /\ genPending' = genPending - 1
    /\ data' = GenSeries
    /\ analysis' = NoResult
    /\ loading' = FALSE
    /\ LiveEffect(GenSeries, isLive, settings)
    /\ UNCHANGED <<settings, isLive, analyzeReqs, ticks>>
    /\ owners' = OwnedBy(GenSeries, settings.sensorId)
    /\ UNCHANGED aside

\* A catch block that empties the dashboard.
GenerateRejectClears ==
    /\ genPending > 0
    /\ genPending' = genPending - 1
    /\ loading' = FALSE
    /\ data' = <<>>
    /\ analysis' = NoResult
    /\ LiveEffect(<<>>, isLive, settings)
    /\ UNCHANGED <<settings, isLive, analyzeReqs, ticks>>
    /\ owners' = <<>>
    /\ UNCHANGED aside

\* await api.generateSynthetic(...) rejects: console.error, alert, and
\* finally setLoading(false).
GenerateReject ==
    /\ genPending > 0
    /\ genPending' = genPending - 1
    /\ loading' = FALSE
    /\ UNCHANGED <<data, analysis, settings, isLive, timerOn, timers, timerData,
                   timerSettings, analyzeReqs, ticks>>
    /\ UNCHANGED <<owners, genType, report, call, upload, sensorForm>>

\* A Clear Data button that is not disabled while live.
ClearUnguarded ==
    /\ data' = <<>>
    /\ analysis' = NoResult
    /\ LiveEffect(<<>>, isLive, settings)
    /\ UNCHANGED <<loading, settings, isLive, analyzeReqs, genPending, ticks>>
    /\ owners' = <<>>
    /\ UNCHANGED aside

\* Clear Data button (disabled={isLive}): setData([]); setAnalysis(null).
Clear ==
    /\ ~isLive
    /\ data' = <<>>
    /\ analysis' = NoResult
    /\ LiveEffect(<<>>, isLive, settings)
    /\ UNCHANGED <<loading, settings, isLive, analyzeReqs, genPending, ticks>>
    /\ owners' = <<>>
    /\ UNCHANGED aside

\* reader.onload of the Upload CSV input (never disabled): parse, and
\* onDataLoad(values) when at least one value was read.
CsvLoad(tokens) ==
    LET values == ParseCsv(tokens)
    IN  IF Len(values) > 0
        THEN /\ data' = values
             /\ analysis' = NoResult
             /\ LiveEffect(values, isLive, settings)
             /\ owners' = OwnedBy(values, settings.sensorId)
             /\ UNCHANGED <<loading, settings, isLive, analyzeReqs,
                            genPending, ticks>>
             /\ UNCHANGED aside
        ELSE UNCHANGED vars

\* Sensor ID input: setSensorId, then the sidebar effect calls
\* onSettingsChange; the live effect does not depend on settings.
SetSensorId(id) ==
    /\ id # settings.sensorId
    /\ settings' = SidebarSettings(id)
    /\ UNCHANGED <<data, analysis, loading, isLive, timerOn, timers, timerData,
                   timerSettings, analyzeReqs, genPending, ticks>>
    /\ UNCHANGED <<owners, genType, report, call, upload, sensorForm>>

\* Scenario select: setGenType; the value stays inside the sidebar until
\* Generate Data is pressed.
SetGenType(type) ==
    /\ type # genType
    /\ genType' = type
    /\ UNCHANGED <<data, analysis, loading, settings, isLive, timerOn, timers,
                   timerData, timerSettings, analyzeReqs, genPending, ticks>>
    /\ UNCHANGED <<owners, report, call, upload, sensorForm>>

\* The body of POST /report: the result's fields and the raw data.
ReportPayload(result, rawData) ==
    [kind |-> "sent", result |-> result, data |-> rawData]

\* The Export Report button: handleDownloadReport sends the result held
\* together with the current data.
DownloadReport ==
    /\ analysis # NoResult
    /\ report' = ReportPayload(analysis, data)
    /\ UNCHANGED <<dashboardState, owners, genType, call, upload, sensorForm>>

Next ==
    \/ ToggleLive
    \/ \E rnd \in RandomOutcomes : Tick(rnd)
    \/ RunAnalysis
    \/ \E req \in BagToSet(analyzeReqs) : AnalyzeResolve(req)
    \/ \E req \in BagToSet(analyzeReqs) : AnalyzeReject(req)
    \/ GenerateClick(genType)
    \/ GenerateResolve
    \/ GenerateReject
    \/ Clear
    \/ \E tokens \in CsvFiles : CsvLoad(tokens)

Spec == Init /\ [][Next]_vars

\* setInterval: the callback runs again and again while the interval is
\* registered.
TickFires == \E rnd \in RandomOutcomes : Tick(rnd)

FairSpec == Init /\ [][Next]_vars /\ WF_vars(TickFires)

----------------------------------------------------------------------------
(* DataUploadModal.  A file is known by its name, a sequence of             *)
(* characters.                                                              *)

DotCsv == <<".", "c", "s", "v">>

\* The files a user may choose or drop; NoFile is a drop that carries no
\* file (dataTransfer.files[0] is undefined).
FileNames ==
    { <<"a">> \o DotCsv,
      <<"b">> \o DotCsv,
      DotCsv,
      <<"a", ".", "t", "x", "t">>,
      <<"c", "s", "v">>,
      <<"a">> \o DotCsv \o <<".", "b", "a", "k">>,
      <<"a", ".", "C", "S", "V">>,
      NoFile }

\* String.prototype.endsWith
EndsWith(name, suffix) ==
    /\ Len(name) >= Len(suffix)
    /\ SubSeq(name, Len(name) - Len(suffix) + 1, Len(name)) = suffix

TypeError == "Please upload a .csv file"
UploadError == "Failed to upload data. Please try again."

\* A validation that accepts every file.
ValidateAny(f) == [upload EXCEPT !.error = NoError, !.file = f]

\* validateAndSetFile: setError(null), then setFile(f) for a .csv name and
\* the error message otherwise.
ValidateAndSetFile(f) ==
    IF f # NoFile /\ EndsWith(f, DotCsv)
    THEN [upload EXCEPT !.error = NoError, !.file = f]
    ELSE [upload EXCEPT !.error = TypeError]

notUpload == <<dashboardState, owners, genType, report, call, sensorForm>>

\* Dialog onOpenChange={setOpen}: the trigger, Escape, a click outside.
UmOpenChange ==
    /\ upload' = [upload EXCEPT !.open = ~@]
    /\ UNCHANGED notUpload

\* A file is dropped on the drop zone or chosen in the file input.
UmSelect(f) ==
    /\ upload.open
    /\ upload' = ValidateAndSetFile(f)
    /\ UNCHANGED notUpload

\* Clear button (disabled={!file || uploading}): setFile(null).
UmClear ==
    /\ upload.open
    /\ upload.file # NoFile
    /\ ~upload.uploading
    /\ upload' = [upload EXCEPT !.file = NoFile]
    /\ UNCHANGED notUpload

\* Upload button (disabled={!file || uploading}): handleUpload up to its
\* await.
UmUpload ==
    /\ upload.open
    /\ upload.file # NoFile
    /\ ~upload.uploading
    /\ upload.started < MaxUploads
    /\ upload' = [upload EXCEPT !.uploading = TRUE,
                                !.error = NoError,
                                !.requests = Append(@, upload.file),
                                !.started = @ + 1]
    /\ UNCHANGED notUpload

\* await api.uploadReadings(...) resolves: onUploadSuccess(),
\* setOpen(false), setFile(null), and finally setUploading(false).
UmUploadOk ==
    /\ upload.requests # <<>>
    /\ upload' = [upload EXCEPT !.requests = Tail(@),
                                !.ok = @ + 1,
                                !.notified = @ + 1,
                                !.open = FALSE,
                                !.file = NoFile,
                                !.uploading = FALSE]
    /\ UNCHANGED notUpload

\* A catch block that gives up the file and closes the dialog.
UmUploadFailCloses ==
    /\ upload.requests # <<>>
    /\ upload' = [upload EXCEPT !.requests = Tail(@),
                                !.failed = @ + 1,
                                !.error = UploadError,
                                !.open = FALSE,
                                !.file = NoFile,
                                !.uploading = FALSE]
    /\ UNCHANGED notUpload

\* await api.uploadReadings(...) rejects: console.error, setError(...),
\* and finally setUploading(false).
UmUploadFail ==
    /\ upload.requests # <<>>
    /\ upload' = [upload EXCEPT !.requests = Tail(@),
                                !.failed = @ + 1,
                                !.error = UploadError,
                                !.uploading = FALSE]
    /\ UNCHANGED notUpload

UploadNext ==
    \/ UmOpenChange
    \/ \E f \in FileNames : UmSelect(f)
    \/ UmClear
    \/ UmUpload
    \/ UmUploadOk
    \/ UmUploadFail

UploadSpec == Init /\ [][UploadNext]_vars

----------------------------------------------------------------------------
(* AddSensorModal.                                                          *)

\* What the user may have typed and selected.
Forms ==
    [name : {"", "P-101"}, location : {"", "Plant A"},
     source_type : {"CSV", "SCADA"}]

notSensorForm == <<dashboardState, owners, genType, report, call, upload>>

\* Dialog onOpenChange={setOpen}.
SfOpenChange ==
    /\ sensorForm' = [sensorForm EXCEPT !.open = ~@]
    /\ UNCHANGED notSensorForm

\* The inputs and the select (never disabled): setFormData with one field
\* changed.
SfEdit(form) ==
    /\ sensorForm.open
    /\ \/ form = [sensorForm.form EXCEPT !.name = form.name]
       \/ form = [sensorForm.form EXCEPT !.location = form.location]
       \/ form = [sensorForm.form EXCEPT !.source_type = form.source_type]
    /\ form # sensorForm.form
    /\ sensorForm' = [sensorForm EXCEPT !.form = form]
    /\ UNCHANGED notSensorForm

\* Save Sensor (type="submit", disabled={loading}; name and location are
\* required): handleSubmit up to its await.
SfSubmit ==
    /\ sensorForm.open
    /\ ~sensorForm.loading
    /\ sensorForm.form.name # ""
    /\ sensorForm.form.location # ""
    /\ sensorForm.started < MaxCreates
    /\ sensorForm' = [sensorForm EXCEPT !.loading = TRUE,
                                        !.requests = Append(@, sensorForm.form),
                                        !.started = @ + 1]
    /\ UNCHANGED notSensorForm

\* await api.createSensor(formData) resolves: onSensorCreated(sensor),
\* setOpen(false), setFormData(reset), and finally setLoading(false).
SfCreateOk ==
    /\ sensorForm.requests # <<>>
    /\ sensorForm' = [sensorForm EXCEPT !.requests = Tail(@),
                                        !.ok = @ + 1,
                                        !.notified = @ + 1,
                                        !.open = FALSE,
                                        !.form = EmptyForm,
                                        !.loading = FALSE]
    /\ UNCHANGED notSensorForm

\* A catch block that discards the form as the success branch does.
SfCreateFailResets ==
    /\ sensorForm.requests # <<>>
    /\ sensorForm' = [sensorForm EXCEPT !.requests = Tail(@),
                                        !.failed = @ + 1,
                                        !.open = FALSE,
                                        !.form = EmptyForm,
                                        !.loading = FALSE]
    /\ UNCHANGED notSensorForm

\* await api.createSensor(formData) rejects: console.error, and finally
\* setLoading(false).
SfCreateFail ==
    /\ sensorForm.requests # <<>>
    /\ sensorForm' = [sensorForm EXCEPT !.requests = Tail(@),
                                        !.failed = @ + 1,
                                        !.loading = FALSE]
    /\ UNCHANGED notSensorForm

SensorFormNext ==
    \/ SfOpenChange
    \/ \E form \in Forms : SfEdit(form)
    \/ SfSubmit
    \/ SfCreateOk
    \/ SfCreateFail

SensorFormSpec == Init /\ [][SensorFormNext]_vars

----------------------------------------------------------------------------
\* The dashboard with the Sensor ID input in use.
SensorNext ==
    \/ Next
    \/ \E id \in SensorIds : SetSensorId(id)

SensorSpec == Init /\ [][SensorNext]_vars

\* The dashboard with the Export Report button in use.
ReportNext ==
    \/ Next
    \/ DownloadReport

ReportSpec == Init /\ [][ReportNext]_vars

\* The Upload CSV input on an idle dashboard.
CsvNext ==
    \/ \E tokens \in TokenFiles : CsvLoad(tokens)
    \/ Clear

CsvSpec == Init /\ [][CsvNext]_vars

\* The dashboard with the scenario select in use.
ScenarioNext ==
    \/ Next
    \/ \E type \in GenTypes : SetGenType(type)

ScenarioSpec == Init /\ [][ScenarioNext]_vars

----------------------------------------------------------------------------
(* Functions applied on their own: the dashboard stays in its initial       *)
(* state, `call` records the function, its input and its output until the   *)
(* caller has taken the output.                                             *)

dashboard == <<data, analysis, loading, settings, isLive, timerOn, timers, timerData,
               timerSettings, analyzeReqs, genPending, ticks, owners, genType,
               report, upload, sensorForm>>

\* A series of n values.
Series(n) == [i \in 1..n |-> i]

\* POST /analyze with a series of n values and the sidebar's settings.
AnalyzeCall(n) ==
    /\ call' = [fn |-> "analyze", n |-> n,
                out |-> ApiAnalyze(Payload(Series(n), settings, "call"))]
    /\ UNCHANGED dashboard

\* Charts rendered for a series of n values.
ChartsRender(n) ==
    /\ call' = [fn |-> "refEnd", n |-> n, out |-> RefEnd(n)]
    /\ UNCHANGED dashboard

\* The engine scores the metrics m, and again with the deviation of one
\* metric grown by d.
ScoreCall(m, cap, k, d) ==
    /\ call' = [fn      |-> "score",
                metrics |-> m,
                cap     |-> cap,
                out     |-> Scored(m, settings.config, cap),
                grown   |-> k,
                regrown |-> Scored([m EXCEPT ![k] = @ + d],
                                   settings.config, cap)]
    /\ UNCHANGED dashboard

\* The caller takes the output.
Return ==
    /\ call # NoCall
    /\ call' = NoCall
    /\ UNCHANGED dashboard

\* One function is applied at a time.
PureNext ==
    \/ Return
    \/ call = NoCall /\ \E n \in 0..MaxSeriesLen : AnalyzeCall(n)
    \/ call = NoCall /\ \E n \in 1..MaxSeriesLen : ChartsRender(n)
    \/ call = NoCall /\
           \E m \in MetricSets(settings.config), cap \in PenaltyCaps,
              k \in MetricNames, d \in Growths : ScoreCall(m, cap, k, d)

PureSpec == Init /\ [][PureNext]_vars

----------------------------------------------------------------------------
(* Properties *)

\* The step is an interval callback.
TickStep == ticks' # ticks

\* The samples a tick can produce.
SampleValues == {NewVal(rnd) : rnd \in RandomOutcomes}

\* The requests in flight that were issued by an interval callback.
TickReqs == {req \in BagToSet(analyzeReqs) : req.origin = "tick"}

\* C1: during live monitoring at most one analyze request issued by a tick
\* is in flight; a tick that fires while an earlier tick's analysis has not
\* completed starts no second one.
C1_OneAnalysisInFlight ==
    isLive =>
        /\ Cardinality(TickReqs) <= 1
        /\ \A req \in TickReqs : CopiesIn(req, analyzeReqs) = 1

\* C2: between Start and Stop the buffer holds at most 100 samples,
\* whatever series was present when Start was pressed.
C2_BufferBounded == isLive => Len(data) <= Capacity

\* C3: a tick appends exactly one new sample at the end of the current
\* buffer and keeps the last 100 of the result: the retained samples are the
\* newest ones of the old buffer, in their order; a buffer of exactly 100
\* loses exactly its oldest sample.
C3_TickAppendsOne ==
    [][TickStep =>
        LET n == Len(data)
            m == Len(data')
        IN  /\ m = IF n + 1 <= Capacity THEN n + 1 ELSE Capacity
            /\ data'[m] \in SampleValues
            /\ \A i \in 1..(m - 1) : data'[i] = data[n + 1 - m + i]]_vars

\* Two ticks on the generated series: the second one found exactly 100
\* samples and evicted the oldest of them.
C3_EvictedOldest ==
    /\ ticks = 2
    /\ Len(data) = Capacity
    /\ data[1] = GenSeries[GenLength - Capacity + 3]
    /\ data[Capacity - 1] \in SampleValues
    /\ data[Capacity] \in SampleValues

\* C4: a tick issues an analyze request, for the buffer it has just built,
\* exactly when that buffer has at least min_data_points samples; with
\* fewer samples it only appends.
C4_AnalyzeIffEnoughPoints ==
    [][TickStep =>
        IF Len(data') >= settings.config.min_data_points
        THEN \E req \in BagToSet(analyzeReqs') :
                 /\ req.origin = "tick"
                 /\ req.values = data'
                 /\ analyzeReqs' = analyzeReqs (+) SetToBag({req})
        ELSE analyzeReqs' = analyzeReqs]_vars

\* A tick has brought the buffer to exactly min_data_points samples and its
\* request is in flight.
C4_RequestAtThreshold ==
    /\ ticks >= 1
    /\ Len(data) = ConfigMinPoints
    /\ \E req \in TickReqs : req.values = data

\* C5: Stop takes effect before the next scheduled tick: while the monitor
\* is Idle no interval callback runs, so no sample is appended until live
\* monitoring is started again.
C5_NoTickWhileIdle == [][~isLive => ~TickStep]_vars

\* Live monitoring was stopped after a tick, with ticks still allowed.
C5_StoppedAfterTick ==
    /\ ~isLive
    /\ ~timerOn
    /\ ticks >= 1
    /\ ticks < MaxTicks

\* C6: Stop and Start leave the buffer unchanged, and the interval created
\* by Start works on the retained buffer, so that the first tick after
\* Start appends to the samples that were present at Stop.
C6_StopStartKeepBuffer ==
    [][isLive' # isLive =>
        /\ data' = data
        /\ isLive' => (timerOn' /\ timerData' = data)]_vars

\* Stopped with a retained buffer whose newest sample came from a tick.
C6_StoppedWithBuffer ==
    /\ ~isLive
    /\ ticks = 1
    /\ Len(data) = ConfigMinPoints
    /\ data[Len(data)] \in SampleValues
    /\ timerData = data

\* C7 as stated: Clear can be performed in any monitor state, Idle or
\* Running.
C7_ClearInAnyState == ENABLED Clear

\* C7 as amended: Clear can be performed only while the monitor is Idle (the
\* Clear Data button is disabled while Running); it leaves the monitor Idle,
\* with no interval, an empty buffer and no last analysis result.
C7_ClearWhenIdle ==
    [][Clear =>
        /\ ~isLive
        /\ ~isLive'
        /\ ~timerOn'
        /\ data' = <<>>
        /\ analysis' = NoResult]_vars

\* Idle with an empty buffer after samples had been collected: only Clear
\* empties the buffer.
C7_Cleared ==
    /\ ~isLive
    /\ ticks >= 1
    /\ data = <<>>
    /\ analysis = NoResult

\* C8: when the analysis started by a tick fails, the failure is only
\* logged: the buffer with the sample just appended, the published result,
\* the Running state and the interval are left as they were.
C8_FailureOnlyLogged ==
    [][\A req \in TickReqs :
          AnalyzeReject(req) =>
              /\ data' = data
              /\ analysis' = analysis
              /\ isLive' = isLive
              /\ timerOn' = timerOn]_vars

\* The request of the only tick so far is gone and nothing was published:
\* it failed, and the monitor is still Running on the buffer it built.
C8_TickAnalysisFailed ==
    /\ isLive
    /\ timerOn
    /\ ticks = 1
    /\ Len(data) = ConfigMinPoints
    /\ data[Len(data)] \in SampleValues
    /\ analyzeReqs = EmptyBag
    /\ analysis = NoResult

\* C9: while the monitor stays Running every tick is eventually followed by
\* another one (up to MaxTicks), whether the earlier tick's analysis
\* succeeded, failed or was not started.
C9_TickFollowsTick ==
    \A k \in 1..(MaxTicks - 1) :
        (isLive /\ ticks = k) ~> (~isLive \/ ticks > k)

\* A second tick has run although nothing was published for the first one.
C9_SecondTick ==
    /\ isLive
    /\ ticks = 2
    /\ Len(data) = ConfigMinPoints + 1
    /\ analysis = NoResult
    /\ \A req \in BagToSet(analyzeReqs) : req.values = data

\* C10: while the monitor is Running the buffer is changed by the tick
\* handler only.
C10_OnlyTickMutates == [][(isLive /\ isLive' /\ data' # data) => TickStep]_vars

C12_EnoughPoints ==
    /\ analysis # NoResult => Len(analysis.values) >= ConfigMinPoints
    /\ \A req \in BagToSet(analyzeReqs) : Len(req.values) >= ConfigMinPoints

\* A result computed from exactly 50 values is held while the request of
\* the next tick is in flight.
C12_ResultAtThreshold ==
    /\ analysis # NoResult
    /\ Len(analysis.values) = ConfigMinPoints
    /\ \E req \in BagToSet(analyzeReqs) : req.origin = "tick"

\* The requests sent by a step.
Sent(req) == CopiesIn(req, analyzeReqs') > CopiesIn(req, analyzeReqs)

\* C13: buffers are independent per sensor: every sample of the series
\* sent for analysis under a sensor_id was collected while that sensor_id
\* was selected.
C13_SeriesOfOneSensor ==
    [][\A req \in BagToSet(analyzeReqs') :
           Sent(req) =>
               \A i \in DOMAIN owners' : owners'[i].id = req.sensor_id]_vars

\* C14: the sample of each live tick follows the scenario selected in the
\* sidebar at the time of the tick.
C14_TickFollowsScenario == [][TickStep => TickScenario = genType]_vars

\* C16: every analyze request in flight carries the complete default
\* configuration, with the warning thresholds below the critical ones, and
\* so do the settings the next request will be built from.
C16_DefaultConfig ==
    LET Complete(c) ==
            /\ c = [slope_critical |-> 10, slope_warning |-> 5,
                    bias_critical |-> 200, bias_warning |-> 100,
                    noise_critical |-> 150, hysteresis_critical |-> 50,
                    dfa_critical |-> 80, min_data_points |-> 50]
            /\ c.slope_warning < c.slope_critical
            /\ c.bias_warning < c.bias_critical
    IN  /\ Complete(settings.config)
        /\ Complete(timerSettings.config)
        /\ \A req \in BagToSet(analyzeReqs) : Complete(req.config)

\* A request is in flight that was built after the Sensor ID was changed.
C16_RequestAfterChange ==
    \E req \in BagToSet(analyzeReqs) : req.sensor_id = "SENSOR-002"

\* C15 (first half): a report request is sent only when an analysis
\* result exists, and it carries that result.
C15_ReportNeedsResult ==
    [][report' # report =>
           /\ analysis # NoResult
           /\ report'.result = analysis]_vars

\* C15: the values sent with a report are exactly the series from which
\* the result sent with it was computed.
C15_ReportOfAnalysedSeries ==
    report # NoReport =>
        /\ report.result # NoResult
        /\ report.data = report.result.values

\* C17: for every series length n >= 1 the reference window is the first
\* max(1, round(0.1 * n)) samples.
C17_ReferenceWindowRounded ==
    (call.fn = "refEnd" /\ call.n >= 1) =>
        call.out = Max(1, RoundTenth(call.n))

\* C18: every value placed into the series by a CSV load is a finite
\* number (tokens that parse to NaN or to an infinity are dropped).
C18_LoadedValuesFinite == \A i \in DOMAIN data : IsFinite(data[i])

\* The critical thresholds of the requests' configuration, by metric.
Critical ==
    [SLOPE |-> 10, BIAS |-> 200, NOISE |-> 150, HYSTERESIS |-> 50,
     DFA |-> 80]

\* C19: a metric at or beyond its critical threshold forces status Red
\* whatever the other metrics are; otherwise the status is Red if
\* health_score < 50, Yellow if a warning flag is present or
\* health_score < 80, else Green.
C19_StatusRule ==
    call.fn = "score" =>
        LET r == call.out
        IN  IF \E k \in MetricNames : call.metrics[k] >= Critical[k]
            THEN r.status = "Red"
            ELSE r.status =
                     IF r.health_score < 50 THEN "Red"
                     ELSE IF \/ \E f \in r.flags : f.level = "WARNING"
                             \/ r.health_score < 80
                     THEN "Yellow"
                     ELSE "Green"

\* One metric is at its critical threshold, the others are nominal and the
\* score is still 80 or more; the status is Red.
C19_OneCriticalHighScore ==
    /\ call.fn = "score"
    /\ call.metrics.NOISE = Critical.NOISE
    /\ \A k \in MetricNames \ {"NOISE"} : call.metrics[k] = 0
    /\ call.out.health_score >= 80
    /\ call.out.status = "Red"

\* C20: the health score lies in [0, 100], and it does not increase when
\* the deviation of a single metric grows while the others stay fixed.
C20_ScoreBoundedMonotone ==
    call.fn = "score" =>
        /\ call.out.health_score \in 0..100
        /\ call.regrown.health_score \in 0..100
        /\ call.regrown.health_score <= call.out.health_score

\* The plateaus of the metrics beyond critical add up to more than 100 and
\* the score is 0.
C20_ClampedAtZero ==
    /\ call.fn = "score"
    /\ call.out.health_score = 0
    /\ call.cap * Cardinality({f \in call.out.flags : f.level = "CRITICAL"})
           > 100

\* The runs of `owners` cover the samples of `data` one for one.
OwnersCoverData == RunLen(owners) = Len(data)

\* C21: whenever a result is displayed and no analyze request is in
\* flight, the result was computed from the series currently held in data.
C21_ResultOfCurrentSeries ==
    (analysis # NoResult /\ analyzeReqs = EmptyBag) =>
        analysis.values = data

\* The response to a request of a live tick is published.
TickResultPublished ==
    \E req \in BagToSet(analyzeReqs) :
        /\ req.origin = "tick"
        /\ analyzeReqs' = Settle(req)
        /\ analysis' = Result(req)

\* C22: while the monitor is Idle no result is published as a consequence
\* of an earlier tick: the displayed result changes only through an action
\* the user starts.
C22_NoTickResultWhileIdle ==
    [][(~isLive /\ TickResultPublished) => analysis' = analysis]_vars

\* C25: every step that replaces the series outside the live tick
\* (successful Generate, CSV load, Clear) leaves no result displayed.
C25_ReplacingSeriesClearsResult ==
    [][(data' # data /\ ~TickStep) => analysis' = NoResult]_vars

\* The generated series has replaced the one analysed by the ticks and no
\* result is displayed.
C25_GeneratedAfterTicks ==
    /\ data = GenSeries
    /\ analysis = NoResult
    /\ ticks > 0

\* C26: every generation that ends, ends with loading false; one that
\* failed leaves the series and the result as they were, so a changed
\* series or result is the generated series with no result.
C26_GenerateEnds ==
    [][genPending' < genPending =>
           /\ loading' = FALSE
           /\ \/ data' = data /\ analysis' = analysis
              \/ data' = GenSeries /\ analysis' = NoResult]_vars

\* A generation is pending while a result computed from a loaded series
\* is displayed.
C26_PendingOverResult ==
    /\ genPending > 0
    /\ loading
    /\ analysis # NoResult
    /\ data # <<>>

\* C24: every analyze request issued by a live tick carries the sensor_id
\* and the config selected in the sidebar at the moment the tick fires.
C24_TickUsesCurrentSettings ==
    [][\A req \in BagToSet(analyzeReqs') :
           (Sent(req) /\ req.origin = "tick") =>
               /\ req.sensor_id = settings.sensorId
               /\ req.config = settings.config]_vars

\* C23: at most one tick timer is registered at any time, and none while
\* the monitor is Idle: every re-run of the live effect cancels the timer
\* of the previous run before it creates one.
C23_OneTimer ==
    /\ timers \in {0, 1}
    /\ ~isLive => timers = 0
    /\ timerOn <=> timers = 1

\* The effect has re-run after a tick and after a CSV load while live, and
\* one timer is registered.
C23_TimerAfterReruns ==
    /\ isLive
    /\ ticks = MaxTicks
    /\ timers = 1
    /\ Len(data) = ConfigMinPoints + 1

\* C27: in the upload dialog at most one upload is in flight and
\* uploading is true exactly while it is; a successful upload calls
\* onUploadSuccess once, closes the dialog and clears the file; a failed
\* one keeps an open dialog open and the file selected, sets the error
\* message and does not call onUploadSuccess.
C27_UploadOutcome ==
    /\ [](/\ Len(upload.requests) <= 1
          /\ upload.uploading <=> Len(upload.requests) = 1
          /\ upload.notified = upload.ok)
    /\ [][/\ upload'.ok > upload.ok =>
                 /\ upload'.notified = upload.notified + 1
                 /\ ~upload'.open
                 /\ upload'.file = NoFile
                 /\ ~upload'.uploading
          /\ upload'.failed > upload.failed =>
                 /\ upload'.notified = upload.notified
                 /\ upload.open => upload'.open
                 /\ upload'.open = upload.open
                 /\ upload'.file = upload.file
                 /\ upload'.file # NoFile
                 /\ upload'.error = UploadError
                 /\ ~upload'.uploading]_vars

\* One upload has failed and the dialog is still open with its file and
\* the error message; another has succeeded before.
C27_FailedAfterSuccess ==
    /\ upload.ok = 1
    /\ upload.failed = 1
    /\ upload.open
    /\ upload.file # NoFile
    /\ upload.error = UploadError

\* C28: the selected file, when there is one, has a name ending in .csv,
\* and so has the file of every upload request; choosing or dropping
\* another kind of file sets the error message and leaves the selected
\* file as it was.
C28_OnlyCsvSelected ==
    /\ [](/\ upload.file # NoFile => EndsWith(upload.file, DotCsv)
          /\ \A i \in DOMAIN upload.requests :
                 EndsWith(upload.requests[i], DotCsv))
    /\ [][(upload'.error = TypeError /\ upload.error # TypeError) =>
              upload'.file = upload.file]_vars

\* A file that is not a .csv was refused while a .csv file was selected.
C28_RefusedOverSelected ==
    /\ upload.error = TypeError
    /\ upload.file # NoFile

\* C29: in the add-sensor dialog at most one create request is in flight
\* and loading is true exactly while it is; onSensorCreated is called once
\* for each successful create and never for a failed one; a success closes
\* the dialog and resets the form to empty name and location with source
\* CSV; a failure keeps an open dialog open and the form as entered.
C29_CreateOutcome ==
    /\ [](/\ Len(sensorForm.requests) <= 1
          /\ sensorForm.loading <=> Len(sensorForm.requests) = 1
          /\ sensorForm.notified = sensorForm.ok)
    /\ [][/\ sensorForm'.ok > sensorForm.ok =>
                 /\ sensorForm'.notified = sensorForm.notified + 1
                 /\ ~sensorForm'.open
                 /\ sensorForm'.form =
                        [name |-> "", location |-> "", source_type |-> "CSV"]
                 /\ ~sensorForm'.loading
          /\ sensorForm'.failed > sensorForm.failed =>
                 /\ sensorForm'.notified = sensorForm.notified
                 /\ sensorForm.open => sensorForm'.open
                 /\ sensorForm'.open = sensorForm.open
                 /\ sensorForm'.form = sensorForm.form
                 /\ ~sensorForm'.loading]_vars

\* A create request has failed after another succeeded; the dialog is
\* open with the entered data and Save Sensor is enabled again.
C29_FailedAfterSuccess ==
    /\ sensorForm.ok = 1
    /\ sensorForm.failed = 1
    /\ sensorForm.open
    /\ sensorForm.form.name # ""
    /\ sensorForm.form.source_type = "SCADA"
    /\ ~sensorForm.loading

====
